---- MODULE Spec2Model ----
(***************************************************************************)
(* Model of src/main.py: the classes TTests and FTests, five stateless     *)
(* static methods that hand numeric samples to scipy.stats / numpy and     *)
(* return a (statistic, p-value) pair.                                     *)
(*                                                                         *)
(* Inputs.  A sample is a non-empty array of at most MaxLen observations   *)
(* drawn from 0..MaxVal, or one of the two literal arrays of the           *)
(* reference example.                                                      *)
(*                                                                         *)
(* Numbers.  Observations are small integers, so every mean, variance and  *)
(* variance ratio is an exact rational <<num, den>> (den > 0, lowest       *)
(* terms).  A float is one of                                              *)
(*     [kind |-> "nan"]                       IEEE NaN                     *)
(*     [kind |-> "inf", sign |-> s]           +inf / -inf                  *)
(*     [kind |-> "fin", val |-> <<n, d>>]     a finite rational            *)
(*     [kind |-> "root", sign |-> s, sq |-> <<n, d>>]                      *)
(*                                            s * sqrt(n/d), a t statistic *)
(* Rounding of the binary representation is not modelled.                  *)
(*                                                                         *)
(* p-values.  The distribution functions are library code; a tail          *)
(* probability is kept as the term that determines it,                     *)
(*     [kind |-> "tail", dist, sides, at, df]                              *)
(* except at the points where the library's value is exact: 1 at a         *)
(* statistic of 0, 0 at an infinite statistic, NaN at NaN or at            *)
(* non-positive degrees of freedom.                                        *)
(***************************************************************************)
EXTENDS Integers, Sequences, FiniteSets, TLC

VARIABLES sample1, sample2, population_mean, called, result

vars == <<sample1, sample2, population_mean, called, result>>

(* ----------------------------- bounds ---------------------------------- *)
MaxLen == 3
MaxVal == 1

Values == 0..MaxVal

\* the non-empty arrays of at most n observations
RECURSIVE SeqsUpTo(_)
SeqsUpTo(n) ==
    IF n = 1 THEN {<<v>> : v \in Values}
    ELSE LET shorter == SeqsUpTo(n - 1)
         IN  shorter \cup {Append(s, v) : s \in {x \in shorter : Len(x) = n - 1}, v \in Values}

\* the literal arrays of the reference example
ExampleSample1 == <<1, 2, 3, 4, 5>>
ExampleSample2 == <<2, 3, 4, 5, 6>>

Samples == SeqsUpTo(MaxLen) \cup {ExampleSample1, ExampleSample2}

(* ------------------------ exact rational arithmetic -------------------- *)
Abs(i) == IF i < 0 THEN -i ELSE i
Sgn(i) == IF i < 0 THEN -1 ELSE IF i = 0 THEN 0 ELSE 1

RECURSIVE GCD(_, _)
GCD(a, b) == IF b = 0 THEN a ELSE GCD(b, a % b)

\* n/d in lowest terms with a positive denominator (d # 0)
RNorm(n, d) ==
    LET g == GCD(Abs(n), Abs(d))
    IN  <<(Sgn(d) * n) \div g, Abs(d) \div g>>

RAdd(p, q) == RNorm(p[1] * q[2] + q[1] * p[2], p[2] * q[2])
RSub(p, q) == RNorm(p[1] * q[2] - q[1] * p[2], p[2] * q[2])
RMul(p, q) == RNorm(p[1] * q[1], p[2] * q[2])
RDiv(p, q) == RNorm(p[1] * q[2], p[2] * q[1])      \* q # 0
RInt(i) == <<i, 1>>

(* ------------------------------- floats -------------------------------- *)
NaN == [kind |-> "nan"]
Inf(s) == [kind |-> "inf", sign |-> s]
Fin(r) == [kind |-> "fin", val |-> r]
Root(s, q) == [kind |-> "root", sign |-> s, sq |-> q]

IsFin(x) == x.kind = "fin"

FAdd(x, y) == IF IsFin(x) /\ IsFin(y) THEN Fin(RAdd(x.val, y.val)) ELSE NaN
FSub(x, y) == IF IsFin(x) /\ IsFin(y) THEN Fin(RSub(x.val, y.val)) ELSE NaN
FMul(x, y) == IF IsFin(x) /\ IsFin(y) THEN Fin(RMul(x.val, y.val)) ELSE NaN

\* float true division of finite-or-NaN operands: x/0 is +-inf, 0/0 is NaN,
\* and only a warning is issued
FDiv(x, y) ==
    IF ~(IsFin(x) /\ IsFin(y)) THEN NaN
    ELSE IF y.val[1] = 0
         THEN (IF x.val[1] = 0 THEN NaN ELSE Inf(Sgn(x.val[1])))
         ELSE Fin(RDiv(x.val, y.val))

\* np.sqrt of a finite-or-NaN operand
FSqrt(x) ==
    IF ~IsFin(x) \/ x.val[1] < 0 THEN NaN
    ELSE Root(Sgn(x.val[1]), x.val)

\* np.divide(d, denom) with denom the result of FSqrt
FDivRoot(d, denom) ==
    IF ~IsFin(d) \/ denom.kind # "root" THEN NaN
    ELSE IF denom.sign = 0
         THEN (IF d.val[1] = 0 THEN NaN ELSE Inf(Sgn(d.val[1])))
         ELSE Root(Sgn(d.val[1]), RDiv(RMul(d.val, d.val), denom.sq))

(* -------------------------- numpy reductions --------------------------- *)
RECURSIVE SumF(_)
SumF(s) == IF s = <<>> THEN Fin(RInt(0)) ELSE FAdd(Head(s), SumF(Tail(s)))

ToFloat(s) == [i \in 1..Len(s) |-> Fin(RInt(s[i]))]

\* np.mean of a float array; the mean of an empty array is NaN
np_mean(s) == FDiv(SumF(s), Fin(RInt(Len(s))))

\* the variance with ddof dropped (divisor n)
np_var_biased(s, ddof) ==
    LET m == np_mean(s)
        dev == [i \in 1..Len(s) |-> FMul(FSub(s[i], m), FSub(s[i], m))]
    IN  IF Len(s) <= 0 THEN NaN ELSE FDiv(SumF(dev), Fin(RInt(Len(s))))

\* np.var(a, ddof): mean of squared deviations over n - ddof; a non-positive
\* divisor gives NaN
np_var(s, ddof) ==
    LET m == np_mean(s)
        dev == [i \in 1..Len(s) |-> FMul(FSub(s[i], m), FSub(s[i], m))]
    IN  IF Len(s) - ddof <= 0 THEN NaN ELSE FDiv(SumF(dev), Fin(RInt(Len(s) - ddof)))

(* ------------------------- distribution tails -------------------------- *)
PNaN == NaN
PExact(i) == Fin(RInt(i))

FAbs(t) == IF t.kind = "root" THEN Root(Abs(t.sign), t.sq) ELSE t

\* two-sided tail of Student's t: 2 * t.sf(|t|, df)
t_two_sided(t, df) ==
    IF t.kind = "nan" \/ df <= 0 THEN PNaN
    ELSE IF t.kind = "inf" THEN PExact(0)
    ELSE IF t.sign = 0 THEN PExact(1)
    ELSE [kind |-> "tail", dist |-> "t", sides |-> 2, at |-> FAbs(t), df |-> <<df>>]

\* upper tail of Fisher's F: 1 - f.cdf(f, dfn, dfd), equally f.sf(f, dfn, dfd)
f_upper(f, dfn, dfd) ==
    IF f.kind = "nan" \/ dfn <= 0 \/ dfd <= 0 THEN PNaN
    ELSE IF f.kind = "inf" THEN PExact(0)
    ELSE IF f.val[1] <= 0 THEN PExact(1)
    ELSE [kind |-> "tail", dist |-> "F", sides |-> 1, at |-> f, df |-> <<dfn, dfd>>]

(* ------------------------------ outcomes ------------------------------- *)
Returned(stat, p) == [kind |-> "return", statistic |-> stat, pvalue |-> p]
Raised(e) == [kind |-> "raise", error |-> e]
NoCall == [kind |-> "none"]

(* ----------------------------- scipy.stats ------------------------------ *)
\* stats.ttest_1samp(a, popmean): d = mean(a) - popmean, denom = sqrt(var/n),
\* t = d / denom under np.errstate(divide='ignore', invalid='ignore');
\* an empty sample gives (nan, nan)
ttest_1samp(a, popmean) ==
    LET n == Len(a)
        d == FSub(np_mean(a), popmean)
        v == np_var(a, 1)
        denom == FSqrt(FDiv(v, Fin(RInt(n))))
        t == FDivRoot(d, denom)
    IN  IF n = 0 THEN Returned(NaN, NaN)
        ELSE Returned(t, t_two_sided(t, n - 1))

\* the differences taken the other way round, b - a
paired_differences_reversed(a, b) == [i \in 1..Len(a) |-> FSub(b[i], a[i])]

\* d = a - b, element-wise
paired_differences(a, b) == [i \in 1..Len(a) |-> FSub(a[i], b[i])]

\* the statistic of stats.ttest_rel on two arrays of one length: the
\* element-wise differences, their mean over sqrt(var/n)
ttest_rel_paired(a, b) ==
    LET n == Len(a)
        d == paired_differences(a, b)
        v == np_var(d, 1)
        dm == np_mean(d)
        denom == FSqrt(FDiv(v, Fin(RInt(n))))
        t == FDivRoot(dm, denom)
    IN  IF n = 0 THEN Returned(NaN, NaN)
        ELSE Returned(t, t_two_sided(t, n - 1))

\* numpy broadcasting of a 1-d array to length n (only a length-1 array
\* stretches)
Broadcast(a, n) == IF Len(a) = 1 /\ n # 1 THEN [i \in 1..n |-> a[1]] ELSE a

\* stats.ttest_rel(a, b): the set of outcomes over the SciPy releases the
\* unpinned import can resolve to.  Two different lengths that numpy cannot
\* broadcast always raise ValueError.  A length-1 sample against a sample
\* of another length raises ValueError ('unequal length arrays') where the
\* function compares the lengths itself, and is broadcast first where the
\* paired samples are broadcast over every axis before the test runs.
ttest_rel(a, b) ==
    LET n == IF Len(a) = 1 THEN Len(b) ELSE Len(a)
    IN  IF Len(a) = Len(b) THEN {ttest_rel_paired(a, b)}
        ELSE IF Len(a) = 1 \/ Len(b) = 1
             THEN {Raised("ValueError"),
                   ttest_rel_paired(Broadcast(a, n), Broadcast(b, n))}
             ELSE {Raised("ValueError")}

\* the plain average of the two variances, weights dropped
pooled_variance_unweighted(w1, n1, w2, n2) ==
    IF n1 + n2 - 2 = 0 THEN NaN ELSE FDiv(FAdd(w1, w2), Fin(RInt(2)))

\* svar = ((n1-1)*v1 + (n2-1)*v2) / (n1 + n2 - 2)
pooled_variance(w1, n1, w2, n2) ==
    FDiv(FAdd(FMul(Fin(RInt(n1 - 1)), w1), FMul(Fin(RInt(n2 - 1)), w2)),
         Fin(RInt(n1 + n2 - 2)))

\* _equal_var_ttest_denom: the variance of a single observation is taken
\* as 0, df = n1 + n2 - 2, svar the pooled variance,
\* denom = sqrt(svar * (1/n1 + 1/n2))
equal_var_ttest_denom(v1, n1, v2, n2) ==
    LET zero == Fin(RInt(0))
        w1 == IF n1 = 1 THEN zero ELSE v1
        w2 == IF n2 = 1 THEN zero ELSE v2
        df == n1 + n2 - 2
        svar == pooled_variance(w1, n1, w2, n2)
        recip == FAdd(FDiv(Fin(RInt(1)), Fin(RInt(n1))), FDiv(Fin(RInt(1)), Fin(RInt(n2))))
    IN  [df |-> df, denom |-> FSqrt(FMul(svar, recip))]

\* ttest_ind with the variance of the first sample used for both
ttest_ind_first_sample_denom(a, b) ==
    LET n1 == Len(a)
        n2 == Len(b)
        dd == equal_var_ttest_denom(np_var(a, 1), n1, np_var(a, 1), n2)
        d == FSub(np_mean(a), np_mean(b))
        t == FDivRoot(d, dd.denom)
    IN  IF n1 = 0 \/ n2 = 0 THEN Returned(NaN, NaN)
        ELSE Returned(t, t_two_sided(t, dd.df))

\* stats.ttest_ind(a, b) with the default equal_var=True
ttest_ind(a, b) ==
    LET n1 == Len(a)
        n2 == Len(b)
        dd == equal_var_ttest_denom(np_var(a, 1), n1, np_var(b, 1), n2)
        d == FSub(np_mean(a), np_mean(b))
        t == FDivRoot(d, dd.denom)
    IN  IF n1 = 0 \/ n2 = 0 THEN Returned(NaN, NaN)
        ELSE Returned(t, t_two_sided(t, dd.df))

RECURSIVE Concat(_)
Concat(gs) == IF gs = <<>> THEN <<>> ELSE Head(gs) \o Concat(Tail(gs))

square_of_sums(a) == FMul(SumF(a), SumF(a))
sum_of_squares(a) == SumF([i \in 1..Len(a) |-> FMul(a[i], a[i])])

IsConst(a) == \A i \in 1..Len(a) : a[i] = a[1]

\* the total degrees of freedom, bign - 1
within_dof_total(bign, k) == bign - 1

\* dfwn = bign - num_groups
within_dof(bign, k) == bign - k

\* stats.f_oneway(*samples) on 1-d groups
f_oneway(samples) ==
    LET k == Len(samples)
        alldata0 == Concat(samples)
        bign == Len(alldata0)
        all_const == \A g \in 1..k : IsConst(samples[g])
        all_same_const == IsConst(alldata0)
        offset == np_mean(alldata0)
        alldata == [i \in 1..bign |-> FSub(alldata0[i], offset)]
        normalized_ss == FDiv(square_of_sums(alldata), Fin(RInt(bign)))
        sstot == FSub(sum_of_squares(alldata), normalized_ss)
        shifted(g) == [i \in 1..Len(samples[g]) |-> FSub(samples[g][i], offset)]
        ssb_terms == [g \in 1..k |->
                        FDiv(square_of_sums(shifted(g)), Fin(RInt(Len(samples[g]))))]
        ssbn == FSub(SumF(ssb_terms), normalized_ss)
        sswn == FSub(sstot, ssbn)
        dfbn == k - 1
        dfwn == within_dof(bign, k)
        msb == FDiv(ssbn, Fin(RInt(dfbn)))
        msw == FDiv(sswn, Fin(RInt(dfwn)))
        f == FDiv(msb, msw)
    IN  IF k < 2 THEN Raised("TypeError")
        ELSE IF \E g \in 1..k : Len(samples[g]) = 0 THEN Returned(NaN, NaN)
        ELSE IF \A g \in 1..k : Len(samples[g]) = 1 THEN Returned(NaN, NaN)
        ELSE IF all_same_const THEN Returned(NaN, NaN)
        ELSE IF all_const THEN Returned(Inf(1), PExact(0))
        ELSE Returned(f, f_upper(f, dfbn, dfwn))

(* ------------------------------- TTests -------------------------------- *)
\* the test with population_mean dropped (tested against 0)
one_sample_t_test_against_zero(sample, popmean) ==
    ttest_1samp(ToFloat(sample), Fin(RInt(0)))

one_sample_t_test(sample, popmean) == ttest_1samp(ToFloat(sample), Fin(popmean))

\* the outcomes of the call (a set: see ttest_rel)
paired_sample_t_test(s1, s2) == ttest_rel(ToFloat(s1), ToFloat(s2))

independent_two_sample_t_test(s1, s2) == ttest_ind(ToFloat(s1), ToFloat(s2))

(* ------------------------------- FTests -------------------------------- *)
one_way_anova_f_test(groups) == f_oneway([g \in 1..Len(groups) |-> ToFloat(groups[g])])

two_sample_variance_f_test(s1, s2) ==
    LET f_statistic == FDiv(np_var(ToFloat(s1), 1), np_var(ToFloat(s2), 1))
        dfn == Len(s1) - 1
        dfd == Len(s2) - 1
        p_value == f_upper(f_statistic, dfn, dfd)
    IN  Returned(f_statistic, p_value)

(* ------------------------------ the calls ------------------------------ *)
\* hypothesised means a caller passes: the small integers and the sample's
\* own mean
PopulationMeans(sample) ==
    {RInt(v) : v \in Values} \cup
    (IF Len(sample) > 0 THEN {np_mean(ToFloat(sample)).val} ELSE {})

\* A behaviour is one call: the caller supplies the arrays (Init) and calls
\* one of the five methods, which returns or raises.
Init ==
    /\ sample1 \in Samples
    /\ sample2 \in Samples
    /\ population_mean = RInt(0)
    /\ called = "none"
    /\ result = NoCall

OneSampleTTest ==
    \E mu \in PopulationMeans(sample1) :
        /\ called = "none"
        /\ population_mean' = mu
        /\ called' = "one_sample_t_test"
        /\ result' = one_sample_t_test(sample1, mu)
        /\ UNCHANGED <<sample1, sample2>>

PairedSampleTTest ==
    \E r \in paired_sample_t_test(sample1, sample2) :
        /\ called = "none"
        /\ called' = "paired_sample_t_test"
        /\ result' = r
        /\ UNCHANGED <<sample1, sample2, population_mean>>

IndependentTwoSampleTTest ==
    /\ called = "none"
    /\ called' = "independent_two_sample_t_test"
    /\ result' = independent_two_sample_t_test(sample1, sample2)
    /\ UNCHANGED <<sample1, sample2, population_mean>>

OneWayAnovaFTest ==
    /\ called = "none"
    /\ called' = "one_way_anova_f_test"
    /\ result' = one_way_anova_f_test(<<sample1, sample2>>)
    /\ UNCHANGED <<sample1, sample2, population_mean>>

TwoSampleVarianceFTest ==
    /\ called = "none"
    /\ called' = "two_sample_variance_f_test"
    /\ result' = two_sample_variance_f_test(sample1, sample2)
    /\ UNCHANGED <<sample1, sample2, population_mean>>

Next ==
    \/ OneSampleTTest
    \/ PairedSampleTTest
    \/ IndependentTwoSampleTTest
    \/ OneWayAnovaFTest
    \/ TwoSampleVarianceFTest

Spec == Init /\ [][Next]_vars

(* ======================================================================= *)
(* The claims.  The expected values below are computed from the raw        *)
(* integer sums of the observations, by cross-multiplication, and not      *)
(* through the float operators of the model.                               *)
(* ======================================================================= *)
RECURSIVE IntSum(_)
IntSum(s) == IF s = <<>> THEN 0 ELSE Head(s) + IntSum(Tail(s))

RECURSIVE IntSumSq(_)
IntSumSq(s) == IF s = <<>> THEN 0 ELSE Head(s) * Head(s) + IntSumSq(Tail(s))

\* n times the sum of squared deviations from the mean
NSS(s) == Len(s) * IntSumSq(s) - IntSum(s) * IntSum(s)

\* n1 * n2 times the difference of the two means
MeanDiffScaled(s1, s2) == Len(s2) * IntSum(s1) - Len(s1) * IntSum(s2)

\* n1 * n2 times the sum of the two within-sample sums of squares
WithinScaled(s1, s2) == Len(s2) * NSS(s1) + Len(s1) * NSS(s2)

AllIdentical(s) == \A i \in 1..Len(s) : s[i] = s[1]

ElementwiseDifference(a, b) == [i \in 1..Len(a) |-> a[i] - b[i]]

Zero == Root(0, RInt(0))
One == Fin(RInt(1))

Negated(t) ==
    IF t.kind = "root" THEN Root(-t.sign, t.sq)
    ELSE IF t.kind = "inf" THEN Inf(-t.sign)
    ELSE t

Squared(t) ==
    IF t.kind = "root" THEN Fin(t.sq)
    ELSE IF t.kind = "inf" THEN Inf(1)
    ELSE t

\* The two-sided tail of Student's t with v degrees of freedom at |t| is the
\* upper tail of Fisher's F with (1, v) degrees of freedom at t^2; at the
\* exact points (0, 1, NaN) the two are the same value.
SameProbability(pt, pf) ==
    IF pt.kind = "tail" /\ pf.kind = "tail"
    THEN /\ pt.dist = "t" /\ pt.sides = 2
         /\ pf.dist = "F" /\ pf.sides = 1
         /\ pf.at = Squared(pt.at)
         /\ pf.df = <<1, pt.df[1]>>
    ELSE pt = pf

\* the pooled two-sample statistic expected for samples of at least two
\* observations: (mean1 - mean2) / SE_pooled, as a float
ExpectedPooledT(t, s1, s2) ==
    LET n1 == Len(s1)
        n2 == Len(s2)
        D == MeanDiffScaled(s1, s2)
        Q == WithinScaled(s1, s2)
    IN  IF Q = 0
        THEN t = (IF D = 0 THEN NaN ELSE Inf(Sgn(D)))
        ELSE /\ t.kind = "root"
             /\ t.sign = Sgn(D)
             /\ t.sq[1] * (n1 + n2) * Q = t.sq[2] * D * D * (n1 + n2 - 2)

(* C1: for two samples of at least 2 observations and a second sample of   *)
(* non-zero variance, two_sample_variance_f_test returns                   *)
(* F = var(sample1, n1-1) / var(sample2, n2-1) and the upper tail          *)
(* 1 - CDF_F(F, n1-1, n2-1) as p-value, one-sided and never doubled.       *)
C1_VarianceRatio ==
    (/\ called = "two_sample_variance_f_test"
     /\ Len(sample1) >= 2 /\ Len(sample2) >= 2
     /\ NSS(sample2) # 0)
    => LET n1 == Len(sample1)
           n2 == Len(sample2)
           F == result.statistic
       IN  /\ result.kind = "return"
           /\ F.kind = "fin"
           /\ F.val[1] * NSS(sample2) * n1 * (n1 - 1)
                = F.val[2] * NSS(sample1) * n2 * (n2 - 1)
           /\ IF NSS(sample1) = 0
              THEN result.pvalue = One
              ELSE result.pvalue =
                     [kind |-> "tail", dist |-> "F", sides |-> 1,
                      at |-> F, df |-> <<n1 - 1, n2 - 1>>]

C1_Witness ==
    /\ called = "two_sample_variance_f_test"
    /\ Len(sample1) >= 2 /\ Len(sample2) >= 2 /\ Len(sample1) # Len(sample2)
    /\ NSS(sample1) # 0 /\ NSS(sample2) # 0
    /\ result.kind = "return"
    /\ result.statistic.kind = "fin"
    /\ result.statistic.val # RInt(1)
    /\ result.pvalue.kind = "tail"

(* C2: for two samples of at least 2 observations,                         *)
(* independent_two_sample_t_test returns t = (mean1 - mean2) / SE_pooled,  *)
(* SE_pooled built from the pooled variance                                *)
(* ((n1-1)*var1 + (n2-1)*var2) / (n1+n2-2) scaled by (1/n1 + 1/n2), with   *)
(* n1+n2-2 degrees of freedom; [1,2,3,4,5] and [2,3,4,5,6] give t = -1.    *)
C2_PooledT ==
    (/\ called = "independent_two_sample_t_test"
     /\ Len(sample1) >= 2 /\ Len(sample2) >= 2)
    => /\ result.kind = "return"
       /\ ExpectedPooledT(result.statistic, sample1, sample2)
       /\ result.pvalue.kind = "tail"
            => /\ result.pvalue.dist = "t"
               /\ result.pvalue.df = <<Len(sample1) + Len(sample2) - 2>>
       /\ (sample1 = ExampleSample1 /\ sample2 = ExampleSample2)
            => result.statistic = Root(-1, RInt(1))

C2_Witness ==
    /\ called = "independent_two_sample_t_test"
    /\ sample1 = ExampleSample1 /\ sample2 = ExampleSample2
    /\ result.kind = "return"
    /\ result.statistic = Root(-1, RInt(1))
    /\ result.pvalue.kind = "tail"

(* C3: paired_sample_t_test with len(sample1) # len(sample2) fails with    *)
(* the length-mismatch error and returns no (statistic, p-value) pair.     *)
C3_LengthMismatchRejected ==
    (called = "paired_sample_t_test" /\ Len(sample1) # Len(sample2))
    => result.kind = "raise"

(* C4: two_sample_variance_f_test with a second sample of exactly zero     *)
(* variance (all values identical) fails with the division-by-zero error   *)
(* instead of returning a pair.                                            *)
C4_ZeroVarianceRejected ==
    (/\ called = "two_sample_variance_f_test"
     /\ Len(sample1) >= 2 /\ Len(sample2) >= 2
     /\ AllIdentical(sample2))
    => result.kind = "raise"

(* C5: one_sample_t_test, independent_two_sample_t_test and                *)
(* two_sample_variance_f_test fail with the invalid-input error, returning *)
(* nothing, whenever a supplied sample has fewer than 2 observations.      *)
C5_SmallSampleRejected ==
    /\ (called = "one_sample_t_test" /\ Len(sample1) < 2)
         => result.kind = "raise"
    /\ (/\ called \in {"independent_two_sample_t_test", "two_sample_variance_f_test"}
        /\ (Len(sample1) < 2 \/ Len(sample2) < 2))
         => result.kind = "raise"

(* C6: for two samples of equal length, paired_sample_t_test(a, b) returns *)
(* exactly the (t, p) pair of one_sample_t_test(d, 0), d the element-wise  *)
(* difference a - b.                                                       *)
C6_PairedIsOneSampleOfDifferences ==
    (called = "paired_sample_t_test" /\ Len(sample1) = Len(sample2))
    => result = one_sample_t_test(ElementwiseDifference(sample1, sample2), RInt(0))

C6_Witness ==
    /\ called = "paired_sample_t_test"
    /\ Len(sample1) = Len(sample2) /\ Len(sample1) >= 2
    /\ result.kind = "return"
    /\ result.statistic.kind = "root"
    /\ result.statistic.sign = -1
    /\ result.pvalue.kind = "tail"

(* C7 as stated: for every sample (at least 2 observations, as the data    *)
(* model defines a sample), one_sample_t_test(sample, mean(sample))        *)
(* returns t = 0 and p = 1.0, a sample of identical values included.       *)
C7_OwnMeanEverySample ==
    (/\ called = "one_sample_t_test"
     /\ Len(sample1) >= 2
     /\ population_mean[1] * Len(sample1) = IntSum(sample1) * population_mean[2])
    => /\ result.kind = "return"
       /\ result.statistic = Zero
       /\ result.pvalue = One

(* C7 amended: for every sample of at least 2 observations that are not    *)
(* all identical, one_sample_t_test(sample, mean(sample)) returns t = 0    *)
(* and p = 1.0.                                                            *)
C7_OwnMeanNonConstantSample ==
    (/\ called = "one_sample_t_test"
     /\ Len(sample1) >= 2
     /\ ~AllIdentical(sample1)
     /\ population_mean[1] * Len(sample1) = IntSum(sample1) * population_mean[2])
    => /\ result.kind = "return"
       /\ result.statistic = Zero
       /\ result.pvalue = One

C7_Witness ==
    /\ called = "one_sample_t_test"
    /\ Len(sample1) >= 2
    /\ ~AllIdentical(sample1)
    /\ population_mean[2] # 1
    /\ population_mean[1] * Len(sample1) = IntSum(sample1) * population_mean[2]
    /\ result.kind = "return"
    /\ result.statistic = Zero
    /\ result.pvalue = One

(* C8: independent_two_sample_t_test(a, b) and                             *)
(* independent_two_sample_t_test(b, a) return t statistics of equal        *)
(* magnitude and opposite sign and the identical p-value (on degenerate    *)
(* input both orders return the same NaN pair).                            *)
C8_SwapNegatesT ==
    called = "independent_two_sample_t_test"
    => LET swapped == independent_two_sample_t_test(sample2, sample1)
       IN  /\ result.kind = "return"
           /\ swapped.kind = "return"
           /\ swapped.statistic = Negated(result.statistic)
           /\ swapped.pvalue = result.pvalue

C8_Witness ==
    /\ called = "independent_two_sample_t_test"
    /\ Len(sample1) # Len(sample2)
    /\ NSS(sample1) # NSS(sample2)
    /\ result.kind = "return"
    /\ result.statistic.kind = "root"
    /\ result.statistic.sign = -1
    /\ independent_two_sample_t_test(sample2, sample1).statistic.sign = 1
    /\ result.pvalue.kind = "tail"

(* C9: for any two samples a and b the F statistics of                     *)
(* two_sample_variance_f_test(a, b) and two_sample_variance_f_test(b, a)   *)
(* are reciprocal, F(a,b) * F(b,a) = 1.                                    *)
C9_ReciprocalF ==
    called = "two_sample_variance_f_test"
    => LET swapped == two_sample_variance_f_test(sample2, sample1)
       IN  /\ result.kind = "return"
           /\ swapped.kind = "return"
           /\ FMul(result.statistic, swapped.statistic) = One

(* C10: for two groups one_way_anova_f_test computes F as the              *)
(* between-group mean square (SSB / (k-1)) over the within-group mean      *)
(* square (SSW / (N-k)), k = 2; F is the square of the t statistic of      *)
(* independent_two_sample_t_test on the same groups and both tests give    *)
(* the same p-value.                                                       *)
C10_AnovaIsSquaredT ==
    called = "one_way_anova_f_test"
    => LET tt == independent_two_sample_t_test(sample1, sample2)
           n1 == Len(sample1)
           n2 == Len(sample2)
           D == MeanDiffScaled(sample1, sample2)
           Q == WithinScaled(sample1, sample2)
           F == result.statistic
       IN  /\ result.kind = "return"
           /\ tt.kind = "return"
           /\ F = Squared(tt.statistic)
           /\ SameProbability(tt.pvalue, result.pvalue)
           /\ (n1 >= 1 /\ n2 >= 1 /\ Q # 0)
                => /\ F.kind = "fin"
                   /\ F.val[1] * (n1 + n2) * Q = F.val[2] * D * D * (n1 + n2 - 2)
                   /\ result.pvalue.kind = "tail"
                        => result.pvalue.df = <<1, n1 + n2 - 2>>

C10_Witness ==
    /\ called = "one_way_anova_f_test"
    /\ Len(sample1) >= 2 /\ Len(sample2) >= 2 /\ Len(sample1) # Len(sample2)
    /\ result.kind = "return"
    /\ result.statistic.kind = "fin"
    /\ result.statistic.val[1] > 0
    /\ result.pvalue.kind = "tail"
    /\ independent_two_sample_t_test(sample1, sample2).statistic.kind = "root"

====
